---- MODULE Spec2Model ----
(***************************************************************************)
(* Cold Start Analyzer backend: the ingestion API.                         *)
(*                                                                         *)
(* backend/app/schemas/ingest.py  InvocationIngest, IngestResponse         *)
(* backend/app/api/router.py      health_check, ingest_data                *)
(* backend/app/config.py          Settings (DATABASE_URL: the database)    *)
(*                                                                         *)
(* A JSON value is a tagged record: [tag |-> "missing"] is a key that is   *)
(* not in the payload, [tag |-> "null"] is JSON null (Python None), and    *)
(* "str", "num", "bool", "datetime", "dict" carry a value of that type in  *)
(* v.  Durations are whole milliseconds.                                   *)
(***************************************************************************)
EXTENDS Integers, FiniteSets, Sequences, TLC

VARIABLES
    last,       \* the latest request and the response its caller saw
    served,     \* number of requests served so far
    acked,      \* invocation_id -> number of acknowledgements sent for it
    db          \* records persisted in the database behind DATABASE_URL

vars == <<last, served, acked, db>>

\* Number of requests one behaviour serves.
MaxRequests == 3

(***************************************************************************)
(* JSON values and the payloads clients send.                              *)
(***************************************************************************)
Missing == [tag |-> "missing"]
None == [tag |-> "null"]
Str(s) == [tag |-> "str", v |-> s]
Num(n) == [tag |-> "num", v |-> n]
Bool(b) == [tag |-> "bool", v |-> b]
Datetime(s) == [tag |-> "datetime", v |-> s]
BadType == [tag |-> "list"]

InvocationIds == {"abc", "xyz"}

RawPayloads ==
    [ function_name         : {Str("f1"), Missing},
      invocation_id         : {Str(i) : i \in InvocationIds},
      request_id            : {Missing},
      timestamp             : {Datetime("2024-01-01T00:00:00Z")},
      cold_start            : {Bool(TRUE), Bool(FALSE)},
      init_duration_ms      : {Missing, Num(-1), Num(50)},
      execution_duration_ms : {Num(-1), Num(5), BadType},
      billed_duration_ms    : {Missing, Num(-1)},
      memory_used_mb        : {Missing, Num(-1), Num(512)},
      memory_allocated_mb   : {Missing, Num(256)},
      module_timings        : {Missing},
      runtime_version       : {None},
      architecture          : {Missing} ]

(***************************************************************************)
(* schemas/ingest.py: field validation as pydantic does it for the         *)
(* annotations of InvocationIngest.  A required field must be present and  *)
(* of its type; an Optional field defaults to None and accepts None.       *)
(***************************************************************************)
Required(x, tag) == x.tag = tag

Optional(x, tag) == x.tag \in {"missing", "null", tag}

\* The value the model instance holds for an Optional field.
Default(x) == IF x.tag = "missing" THEN None ELSE x

InvocationIngestValid(raw) ==
    /\ Required(raw.function_name, "str")
    /\ Required(raw.invocation_id, "str")
    /\ Optional(raw.request_id, "str")
    /\ Required(raw.timestamp, "datetime")
    /\ Required(raw.cold_start, "bool")
    /\ Optional(raw.init_duration_ms, "num")
    /\ Required(raw.execution_duration_ms, "num")
    /\ Optional(raw.billed_duration_ms, "num")
    /\ Optional(raw.memory_used_mb, "num")
    /\ Optional(raw.memory_allocated_mb, "num")
    /\ Optional(raw.module_timings, "dict")
    /\ Optional(raw.runtime_version, "str")
    /\ Optional(raw.architecture, "str")

InvocationIngest(raw) ==
    [ function_name         |-> raw.function_name,
      invocation_id         |-> raw.invocation_id,
      request_id            |-> Default(raw.request_id),
      timestamp             |-> raw.timestamp,
      cold_start            |-> raw.cold_start,
      init_duration_ms      |-> Default(raw.init_duration_ms),
      execution_duration_ms |-> raw.execution_duration_ms,
      billed_duration_ms    |-> Default(raw.billed_duration_ms),
      memory_used_mb        |-> Default(raw.memory_used_mb),
      memory_allocated_mb   |-> Default(raw.memory_allocated_mb),
      module_timings        |-> Default(raw.module_timings),
      runtime_version       |-> Default(raw.runtime_version),
      architecture          |-> Default(raw.architecture) ]

\* IngestResponse(invocation_id=...): status takes its default.
IngestResponseStatus == "ok"

IngestResponse(invocation_id) ==
    [status |-> IngestResponseStatus, invocation_id |-> invocation_id]

(***************************************************************************)
(* api/router.py                                                           *)
(***************************************************************************)
\* Status of a route declared without status_code.
HTTP_OK == 200
\* Status of a request whose body fails the handler's parameter model.
HTTP_UNPROCESSABLE == 422

health_check == [status |-> "healthy"]

\* A handler that saves the record it acknowledges.
ingest_data_persisting(data, database) ==
    [ response |-> IngestResponse(data.invocation_id.v),
      database |-> database \cup {data} ]

\* The handler: its return value and the database it leaves behind.
ingest_data(data, database) ==
    [ response |-> IngestResponse(data.invocation_id.v),
      database |-> database ]

(***************************************************************************)
(* The state machine: one action per request served.                       *)
(***************************************************************************)
NoRequest == [method |-> "none"]

Init ==
    /\ last = NoRequest
    /\ served = 0
    /\ acked = [i \in InvocationIds |-> 0]
    /\ db = {}

\* POST /ingest with a body that validates: ingest_data runs and answers.
PostIngestAccepted(raw) ==
    /\ served < MaxRequests
    /\ InvocationIngestValid(raw)
    /\ LET r == ingest_data(InvocationIngest(raw), db) IN
        /\ last' = [ method |-> "POST /ingest", raw |-> raw,
                     status_code |-> HTTP_OK, body |-> r.response ]
        /\ db' = r.database
        /\ acked' = [acked EXCEPT ![r.response.invocation_id] = @ + 1]
    /\ served' = served + 1

\* POST /ingest with a body that does not validate: the handler never runs.
PostIngestRejected(raw) ==
    /\ served < MaxRequests
    /\ ~InvocationIngestValid(raw)
    /\ last' = [ method |-> "POST /ingest", raw |-> raw,
                 status_code |-> HTTP_UNPROCESSABLE,
                 body |-> [detail |-> "validation error"] ]
    /\ served' = served + 1
    /\ UNCHANGED <<acked, db>>

\* GET /health
HealthCheck ==
    /\ served < MaxRequests
    /\ last' = [ method |-> "GET /health", status_code |-> HTTP_OK,
                 body |-> health_check ]
    /\ served' = served + 1
    /\ UNCHANGED <<acked, db>>

Next ==
    \/ \E raw \in RawPayloads : PostIngestAccepted(raw)
    \/ \E raw \in RawPayloads : PostIngestRejected(raw)
    \/ HealthCheck

Spec == Init /\ [][Next]_vars

(***************************************************************************)
(* Properties.                                                             *)
(***************************************************************************)
IsPost == last.method = "POST /ingest"

\* C1: every POST /ingest ends in exactly one of three outcomes: accepted
\* (HTTP 202, body {status, invocation_id} with the payload's
\* invocation_id), validation-rejected (HTTP 400) or backpressure (HTTP 503).
C1_ThreeOutcomes ==
    IsPost =>
        \/ /\ last.status_code = 202
           /\ DOMAIN last.body = {"status", "invocation_id"}
           /\ last.body.invocation_id = last.raw.invocation_id.v
        \/ last.status_code = 400
        \/ last.status_code = 503

\* C2: a payload with cold_start = true and no init_duration_ms is rejected
\* at validation: the caller gets a client-error status, never an
\* acknowledgement.
C2_ColdStartRequiresInit ==
    ( /\ IsPost
      /\ last.raw.cold_start = Bool(TRUE)
      /\ last.raw.init_duration_ms.tag \in {"missing", "null"} )
    => ( /\ last.status_code \in 400..499
         /\ "invocation_id" \notin DOMAIN last.body )

\* C3: a record is accepted only if its durations and memory sizes, when
\* present, are >= 0 and memory_used_mb <= memory_allocated_mb when both are
\* present.
C3_RangeRules ==
    (IsPost /\ last.status_code \in 200..299) =>
        LET raw == last.raw
            NonNeg(x) == x.tag = "num" => x.v >= 0
        IN  /\ NonNeg(raw.execution_duration_ms)
            /\ NonNeg(raw.init_duration_ms)
            /\ NonNeg(raw.billed_duration_ms)
            /\ NonNeg(raw.memory_used_mb)
            /\ NonNeg(raw.memory_allocated_mb)
            /\ ( raw.memory_used_mb.tag = "num"
                 /\ raw.memory_allocated_mb.tag = "num"
                 => raw.memory_used_mb.v <= raw.memory_allocated_mb.v )

\* C10: for any valid record, after any earlier requests, the handler answers
\* status "ok" with the record's own invocation_id and leaves the database
\* as it was, whatever was acknowledged before (the same id included).
C10_IngestPersistsNothing ==
    [][ (last'.method = "POST /ingest" /\ InvocationIngestValid(last'.raw))
        => /\ last'.body = [ status |-> "ok",
                             invocation_id |-> last'.raw.invocation_id.v ]
           /\ db' = db
           /\ db' = {} ]_vars

\* A valid record is acknowledged although the same invocation_id was
\* acknowledged before, and nothing is stored.
C10_Witness ==
    /\ IsPost
    /\ InvocationIngestValid(last.raw)
    /\ last.body.status = "ok"
    /\ acked[last.raw.invocation_id.v] >= 2
    /\ db = {}

====
